---- MODULE Spec2Model ----
(***************************************************************************)
(* Resilience layer of the invoice pipeline: the circuit breaker and the   *)
(* retry-with-backoff wrapper of lambda/inference_handler/retry_handler.py *)
(*                                                                         *)
(* The specifications that share this module:                              *)
(*   Spec       one CircuitBreaker whose call() invocations run one at a   *)
(*              time (each call() is one atomic action);                   *)
(*   ConcSpec   one CircuitBreaker shared by several threads, call() cut   *)
(*              into the reads and writes of its attributes (the class     *)
(*              takes no lock);                                            *)
(*   RetrySpec  one run of the wrapper built by retry_with_backoff around  *)
(*              a function whose behaviour is fixed per invocation.        *)
(*   ClassifySpec, MergeSpec, InferSpec, ExtractSpec                       *)
(*              the pure functions of model_helpers.py and                 *)
(*              real_model_helpers.py, applied to bounded inputs;          *)
(*   HandlerSpec  invocations of the Lambda entry points of handler.py     *)
(*              and enhanced_handler.py against one table.                 *)
(* Time is counted in whole ticks of the clock read by time.time().        *)
(***************************************************************************)
EXTENDS Integers, Sequences, FiniteSets, TLC

\* ---------------------------------------------------------------- bounds
MaxThreshold == 3
MaxTimeout == 2
MaxTime == 6
MaxDur == 1
NThreads == 2
MaxCalls == 4
ConcMaxTime == 3
MaxRetries == 3

VARIABLES
    \* CircuitBreaker attributes (retry_handler.py:174-178)
    failure_threshold, recovery_timeout, failure_count, last_failure_time, state,
    \* the clock read by time.time()
    now,
    \* observation of the sequential calls: the last call(), the run of
    \* consecutive failing calls, the run ended by the latest success
    lastCall, streak, forgiven,
    \* threads of the concurrent specification: position in call(), the
    \* value of failure_count loaded by "+=", what each thread saw, and
    \* counts of calls started, increments stored and resets stored
    pc, loaded, seen, started, fails, succs,
    \* one run of the retry wrapper
    cfg, script, attempt, calls, sleeps, rstatus, rvalue, last_exception,
    \* one classification by _is_retryable_aws_error: the error, the verdict
    awsErr, awsVerdict,
    \* one reconciliation: the two inputs, the record returned by
    \* model_helpers.merge_extraction_results and by the one of
    \* real_model_helpers, and how far the run has got
    rule_result, ai_result, merged, merged_real, mstage,
    \* one run of infer_invoice_data: its inputs and what it hands back
    inferIn, inferOut,
    \* one run of extract_amount and extract_tax_amount: the lines of the
    \* text, the key-value pairs, and what each function returned
    lines, kvp, amount_out, tax_out,
    \* the Lambda entry points: the DynamoDB table, the number of uuid4()
    \* values drawn, the messages on the dead letter queue, the number of
    \* invocations so far and the record of the last one
    \* (status 0 while it runs), and whether DLQ_URL is set
    table, ids, dlq, invocations, inv, dlq_url

cbVars == <<failure_threshold, recovery_timeout, failure_count, last_failure_time, state>>
seqVars == <<lastCall, streak, forgiven>>
concVars == <<pc, loaded, seen, started, fails, succs>>
retryVars == <<cfg, script, attempt, calls, sleeps, rstatus, rvalue, last_exception>>
extractVars == <<lines, kvp, amount_out, tax_out>>
pureVars == <<awsErr, awsVerdict, rule_result, ai_result, merged, merged_real, mstage, inferIn, inferOut, extractVars>>
handlerVars == <<table, ids, dlq, invocations, inv, dlq_url>>
vars == <<cbVars, now, seqVars, concVars, retryVars, pureVars, handlerVars>>

\* ------------------------------------------------------------ exceptions
\* last_failure_time = None
NoTime == -1

\* The exception classes the layer meets, each with its base classes
\* (itself included): isinstance(e, c) is c \in Bases(type of e).
Bases(t) ==
    CASE t = "Exception" -> {"Exception"}
      [] t = "RetryableError" -> {"RetryableError", "Exception"}
      [] t = "NonRetryableError" -> {"NonRetryableError", "Exception"}
      [] t = "InvoiceProcessingError" -> {"InvoiceProcessingError", "Exception"}
      [] t = "ValidationError" -> {"ValidationError", "InvoiceProcessingError", "Exception"}
      [] t = "ValueError" -> {"ValueError", "Exception"}
      [] t = "ClientError" -> {"ClientError", "Exception"}

IsInstance(e, c) == c \in Bases(e.type)

ErrTypes == {"RetryableError", "NonRetryableError", "ValidationError", "ValueError", "ClientError"}

\* raise Exception("Circuit breaker is OPEN - service unavailable")
CircuitOpenException == [type |-> "Exception", msg |-> "Circuit breaker is OPEN - service unavailable"]

FuncError(t) == [type |-> t, msg |-> "raised by the wrapped function"]

Results == {"success", "other"}

\* what a call hands back: a result returned or an exception raised
Returned(v) == [type |-> "result", msg |-> v]

Nothing == [type |-> "none", msg |-> "none"]

\* ------------------------------------------------- CircuitBreaker: pieces
\* variants of the pieces below, each a slip the code could have made
RecoveryElapsed_nosub(t, lft, rt) == t > rt

ThresholdReached_strict(fc, thr) == fc > thr

StateOnSuccess_keep(st) == st

CountOnSuccess_keep(fc) == fc

StateOnAdmit_stay(st) == st

CountOnFailure_skip(fc) == fc

\* time.time() - self.last_failure_time > self.recovery_timeout
RecoveryElapsed(t, lft, rt) == t - lft > rt

\* self.failure_count >= self.failure_threshold
ThresholdReached(fc, thr) == fc >= thr

\* _on_success: the state it leaves
StateOnSuccess(st) == IF st = "HALF_OPEN" THEN "CLOSED" ELSE st

\* _on_success: the failure count it leaves
CountOnSuccess(fc) == 0

\* _on_failure: the failure count it leaves
CountOnFailure(fc) == fc + 1

\* _on_failure: the state it leaves, fc the count after the increment
StateOnFailure(st, fc, thr) == IF ThresholdReached(fc, thr) THEN "OPEN" ELSE st

\* the state in which call() reaches the wrapped function
StateOnAdmit(st) == IF st = "OPEN" THEN "HALF_OPEN" ELSE st

\* call() raises before the try block: the breaker is OPEN and the timeout
\* has not gone by
Rejects(st, t, lft, rt) == st = "OPEN" /\ ~RecoveryElapsed(t, lft, rt)

NoCall ==
    [pre_state |-> "none", pre_count |-> 0, pre_lft |-> NoTime, at |-> 0,
     invoke_state |-> "none", invoked |-> 0, func |-> Nothing,
     outcome |-> "none", value |-> Nothing, failed_at |-> NoTime]

\* --------------------------------------------- CircuitBreaker: sequential
CBInit ==
    /\ failure_threshold \in 1..MaxThreshold
    /\ recovery_timeout \in 1..MaxTimeout
    /\ failure_count = 0
    /\ last_failure_time = NoTime
    /\ state = "CLOSED"
    /\ now = 0

IdleConc ==
    /\ pc = [t \in 1..NThreads |-> "idle"]
    /\ loaded = [t \in 1..NThreads |-> 0]
    /\ seen = [t \in 1..NThreads |-> [state |-> "none", time |-> NoTime]]
    /\ started = 0
    /\ fails = 0
    /\ succs = 0

IdleRetry ==
    /\ cfg = [max_retries |-> 0]
    /\ script = <<>>
    /\ attempt = 0
    /\ calls = 0
    /\ sleeps = <<>>
    /\ rstatus = "unused"
    /\ rvalue = Nothing
    /\ last_exception = Nothing

\* no extraction running
IdleExtract ==
    /\ lines = <<>>
    /\ kvp = <<>>
    /\ amount_out = Nothing
    /\ tax_out = Nothing

IdlePure ==
    /\ awsErr = Nothing
    /\ awsVerdict = "none"
    /\ rule_result = Nothing
    /\ ai_result = Nothing
    /\ merged = Nothing
    /\ merged_real = Nothing
    /\ mstage = "unused"
    /\ inferIn = Nothing
    /\ inferOut = Nothing
    /\ IdleExtract

\* no invocation yet
NoInvocation ==
    [handler |-> "none", event |-> "none", key |-> <<>>, status |-> 0, attempt |-> 0,
     calls |-> <<>>, persist_ids |-> <<>>, stored |-> FALSE, result |-> Nothing]

IdleHandler ==
    /\ table = {}
    /\ ids = 0
    /\ dlq = 0
    /\ invocations = 0
    /\ inv = NoInvocation
    /\ dlq_url = FALSE

Init ==
    /\ CBInit
    /\ lastCall = NoCall
    /\ streak = 0
    /\ forgiven = 0
    /\ IdleConc
    /\ IdleRetry
    /\ IdlePure
    /\ IdleHandler

\* the clock advances between calls
Tick ==
    /\ now < MaxTime
    /\ now' = now + 1
    /\ UNCHANGED <<cbVars, seqVars, concVars, retryVars, pureVars, handlerVars>>

\* a rejection that would be booked as one more failure
CallRejected_counts ==
    /\ Rejects(state, now, last_failure_time, recovery_timeout)
    /\ failure_count' = failure_count + 1
    /\ last_failure_time' = now
    /\ lastCall' = [pre_state |-> state, pre_count |-> failure_count,
                    pre_lft |-> last_failure_time, at |-> now,
                    invoke_state |-> "none", invoked |-> 0, func |-> Nothing,
                    outcome |-> "raised", value |-> CircuitOpenException,
                    failed_at |-> NoTime]
    /\ UNCHANGED <<failure_threshold, recovery_timeout, state, now, streak, forgiven, concVars, retryVars, pureVars, handlerVars>>

\* call() while OPEN within the timeout: raises at line 189, nothing written
CallRejected ==
    /\ Rejects(state, now, last_failure_time, recovery_timeout)
    /\ lastCall' = [pre_state |-> state, pre_count |-> failure_count,
                    pre_lft |-> last_failure_time, at |-> now,
                    invoke_state |-> "none", invoked |-> 0, func |-> Nothing,
                    outcome |-> "raised", value |-> CircuitOpenException,
                    failed_at |-> NoTime]
    /\ UNCHANGED <<cbVars, now, streak, forgiven, concVars, retryVars, pureVars, handlerVars>>

\* call() admitted, func returns v after d ticks: _on_success, return result
CallSuccess(v, d) ==
    /\ ~Rejects(state, now, last_failure_time, recovery_timeout)
    /\ now + d <= MaxTime
    /\ now' = now + d
    /\ failure_count' = CountOnSuccess(failure_count)
    /\ state' = StateOnSuccess(StateOnAdmit(state))
    /\ lastCall' = [pre_state |-> state, pre_count |-> failure_count,
                    pre_lft |-> last_failure_time, at |-> now,
                    invoke_state |-> StateOnAdmit(state), invoked |-> 1, func |-> Returned(v),
                    outcome |-> "returned", value |-> Returned(v), failed_at |-> NoTime]
    /\ streak' = 0
    /\ forgiven' = streak
    /\ UNCHANGED <<failure_threshold, recovery_timeout, last_failure_time, concVars, retryVars, pureVars, handlerVars>>

\* call() admitted, func raises e after d ticks: _on_failure, raise e
CallFailure(e, d) ==
    /\ ~Rejects(state, now, last_failure_time, recovery_timeout)
    /\ now + d <= MaxTime
    /\ now' = now + d
    /\ failure_count' = CountOnFailure(failure_count)
    /\ last_failure_time' = now + d
    /\ state' = StateOnFailure(StateOnAdmit(state), CountOnFailure(failure_count), failure_threshold)
    /\ lastCall' = [pre_state |-> state, pre_count |-> failure_count,
                    pre_lft |-> last_failure_time, at |-> now,
                    invoke_state |-> StateOnAdmit(state), invoked |-> 1, func |-> e,
                    outcome |-> "raised", value |-> e, failed_at |-> now + d]
    /\ streak' = streak + 1
    /\ UNCHANGED forgiven
    /\ UNCHANGED <<failure_threshold, recovery_timeout, concVars, retryVars, pureVars, handlerVars>>

Next ==
    \/ Tick
    \/ CallRejected
    \/ \E v \in Results, d \in 0..MaxDur : CallSuccess(v, d)
    \/ \E t \in ErrTypes, d \in 0..MaxDur : CallFailure(FuncError(t), d)

Spec == Init /\ [][Next]_vars

\* ------------------------------------------ CircuitBreaker: claims (Spec)
\* C1: a breaker with failure_threshold >= 1 that starts CLOSED with
\* failure_count = 0 is OPEN once failure_threshold consecutive calls have
\* had their wrapped function raise (no success in between).
C1_OpenAfterThreshold == streak >= failure_threshold => state = "OPEN"

C1_Witness ==
    /\ failure_threshold >= 2
    /\ streak = failure_threshold
    /\ lastCall.pre_state = "CLOSED"
    /\ lastCall.invoked = 1
    /\ state = "OPEN"

\* C2: a call made while OPEN before recovery_timeout has gone by since
\* last_failure_time fails at once and invokes the wrapped function zero
\* times.
C2_OpenFailsFast ==
    (lastCall.pre_state = "OPEN" /\ lastCall.at - lastCall.pre_lft < recovery_timeout)
        => /\ lastCall.outcome = "raised"
           /\ lastCall.value = CircuitOpenException
           /\ lastCall.invoked = 0

C2_Witness ==
    /\ lastCall.pre_state = "OPEN"
    /\ lastCall.at > lastCall.pre_lft
    /\ lastCall.at - lastCall.pre_lft < recovery_timeout
    /\ lastCall.invoked = 0

\* C3 (as claimed): a call made while OPEN once the time since the last
\* failure has reached recovery_timeout is admitted: the state becomes
\* HALF_OPEN and the wrapped function is invoked.
C3_AdmittedWhenReached ==
    (lastCall.pre_state = "OPEN" /\ lastCall.at - lastCall.pre_lft >= recovery_timeout)
        => /\ lastCall.invoke_state = "HALF_OPEN"
           /\ lastCall.invoked = 1

\* C3 (amended): a call made while OPEN once the time since the last failure
\* exceeds recovery_timeout is admitted: the state becomes HALF_OPEN and the
\* wrapped function is invoked; at exactly recovery_timeout it is rejected.
C3_AdmittedWhenExceeded ==
    /\ (lastCall.pre_state = "OPEN" /\ lastCall.at - lastCall.pre_lft > recovery_timeout)
        => /\ lastCall.invoke_state = "HALF_OPEN"
           /\ lastCall.invoked = 1
    /\ (lastCall.pre_state = "OPEN" /\ lastCall.at - lastCall.pre_lft = recovery_timeout)
        => /\ lastCall.invoked = 0
           /\ lastCall.value = CircuitOpenException

C3_Witness ==
    /\ lastCall.pre_state = "OPEN"
    /\ lastCall.at - lastCall.pre_lft = recovery_timeout + 1
    /\ lastCall.invoke_state = "HALF_OPEN"
    /\ lastCall.invoked = 1

\* C4: when the wrapped function succeeds while the breaker is HALF_OPEN,
\* the call leaves the state CLOSED and failure_count 0 and returns the
\* function's result.
C4_HalfOpenSuccessCloses ==
    (lastCall.invoke_state = "HALF_OPEN" /\ lastCall.func.type = "result")
        => /\ state = "CLOSED"
           /\ failure_count = 0
           /\ lastCall.outcome = "returned"
           /\ lastCall.value = lastCall.func

C4_Witness ==
    /\ lastCall.invoke_state = "HALF_OPEN"
    /\ lastCall.func = Returned("other")
    /\ lastCall.pre_count >= failure_threshold
    /\ state = "CLOSED"

\* C6: every successful call leaves failure_count = 0, and a CLOSED breaker
\* becomes OPEN only on a step that completes failure_threshold failures
\* with no success among them.
C6_OpenOnlyOnConsecutive ==
    [][/\ lastCall'.outcome = "returned" => failure_count' = 0
       /\ (state = "CLOSED" /\ state' = "OPEN") => streak' >= failure_threshold]_vars

\* failures cut by a success add up to the threshold and the breaker is
\* still CLOSED
C6_Witness ==
    /\ state = "CLOSED"
    /\ lastCall.pre_state = "CLOSED"
    /\ lastCall.outcome = "raised"
    /\ forgiven >= 1
    /\ forgiven < failure_threshold
    /\ streak >= 1
    /\ forgiven + streak >= failure_threshold

\* --------------------------------------------- CircuitBreaker: concurrent
\* Threads share one breaker; call(), _on_success and _on_failure take no
\* lock, so a thread switch can fall between any two attribute accesses
\* ("self.failure_count += 1" is a load, an add and a store).
Threads == 1..NThreads

ConcInit ==
    /\ CBInit
    /\ lastCall = NoCall
    /\ streak = 0
    /\ forgiven = 0
    /\ IdleConc
    /\ IdleRetry
    /\ IdlePure
    /\ IdleHandler

Goto(t, l) == pc' = [pc EXCEPT ![t] = l]

ConcTick ==
    /\ now < ConcMaxTime
    /\ now' = now + 1
    /\ UNCHANGED <<cbVars, seqVars, concVars, retryVars, pureVars, handlerVars>>

\* line 184: if self.state == 'OPEN'
TBegin(t) ==
    /\ pc[t] = "idle"
    /\ started < MaxCalls
    /\ started' = started + 1
    /\ Goto(t, IF state = "OPEN" THEN "check" ELSE "invoke")
    /\ UNCHANGED <<cbVars, now, seqVars, loaded, seen, fails, succs, retryVars, pureVars, handlerVars>>

\* line 185: the timeout test; line 189: raise
TCheck(t) ==
    /\ pc[t] = "check"
    /\ Goto(t, IF RecoveryElapsed(now, last_failure_time, recovery_timeout) THEN "half" ELSE "idle")
    /\ UNCHANGED <<cbVars, now, seqVars, loaded, seen, started, fails, succs, retryVars, pureVars, handlerVars>>

\* line 186: self.state = 'HALF_OPEN'
THalf(t) ==
    /\ pc[t] = "half"
    /\ state' = "HALF_OPEN"
    /\ Goto(t, "invoke")
    /\ UNCHANGED <<failure_threshold, recovery_timeout, failure_count, last_failure_time,
                   now, seqVars, loaded, seen, started, fails, succs, retryVars, pureVars, handlerVars>>

\* line 192: func returns
TReturn(t) ==
    /\ pc[t] = "invoke"
    /\ seen' = [seen EXCEPT ![t] = [state |-> state, time |-> NoTime]]
    /\ Goto(t, "s_reset")
    /\ UNCHANGED <<cbVars, now, seqVars, loaded, started, fails, succs, retryVars, pureVars, handlerVars>>

\* line 192: func raises
TRaise(t) ==
    /\ pc[t] = "invoke"
    /\ seen' = [seen EXCEPT ![t] = [state |-> state, time |-> NoTime]]
    /\ Goto(t, "f_load")
    /\ UNCHANGED <<cbVars, now, seqVars, loaded, started, fails, succs, retryVars, pureVars, handlerVars>>

\* line 201: self.failure_count = 0
TSuccReset(t) ==
    /\ pc[t] = "s_reset"
    /\ failure_count' = CountOnSuccess(failure_count)
    /\ succs' = succs + 1
    /\ Goto(t, "s_check")
    /\ UNCHANGED <<failure_threshold, recovery_timeout, last_failure_time, state,
                   now, seqVars, loaded, seen, started, fails, retryVars, pureVars, handlerVars>>

\* line 202: if self.state == 'HALF_OPEN'
TSuccCheck(t) ==
    /\ pc[t] = "s_check"
    /\ Goto(t, IF state = "HALF_OPEN" THEN "s_close" ELSE "idle")
    /\ UNCHANGED <<cbVars, now, seqVars, loaded, seen, started, fails, succs, retryVars, pureVars, handlerVars>>

\* line 203: self.state = 'CLOSED'
TSuccClose(t) ==
    /\ pc[t] = "s_close"
    /\ state' = "CLOSED"
    /\ Goto(t, "idle")
    /\ UNCHANGED <<failure_threshold, recovery_timeout, failure_count, last_failure_time,
                   now, seqVars, loaded, seen, started, fails, succs, retryVars, pureVars, handlerVars>>

\* line 208, the load of self.failure_count
TFailLoad(t) ==
    /\ pc[t] = "f_load"
    /\ loaded' = [loaded EXCEPT ![t] = failure_count]
    /\ Goto(t, "f_store")
    /\ UNCHANGED <<cbVars, now, seqVars, seen, started, fails, succs, retryVars, pureVars, handlerVars>>

\* line 208, the store of the loaded value plus one
TFailStore(t) ==
    /\ pc[t] = "f_store"
    /\ failure_count' = CountOnFailure(loaded[t])
    /\ fails' = fails + 1
    /\ Goto(t, "f_time")
    /\ UNCHANGED <<failure_threshold, recovery_timeout, last_failure_time, state,
                   now, seqVars, loaded, seen, started, succs, retryVars, pureVars, handlerVars>>

\* line 209: self.last_failure_time = time.time()
TFailTime(t) ==
    /\ pc[t] = "f_time"
    /\ last_failure_time' = now
    /\ seen' = [seen EXCEPT ![t].time = now]
    /\ Goto(t, "f_check")
    /\ UNCHANGED <<failure_threshold, recovery_timeout, failure_count, state,
                   now, seqVars, loaded, started, fails, succs, retryVars, pureVars, handlerVars>>

\* line 211: if self.failure_count >= self.failure_threshold
TFailCheck(t) ==
    /\ pc[t] = "f_check"
    /\ Goto(t, IF ThresholdReached(failure_count, failure_threshold) THEN "f_open" ELSE "idle")
    /\ UNCHANGED <<cbVars, now, seqVars, loaded, seen, started, fails, succs, retryVars, pureVars, handlerVars>>

\* line 212: self.state = 'OPEN'
TFailOpen(t) ==
    /\ pc[t] = "f_open"
    /\ state' = "OPEN"
    /\ Goto(t, "idle")
    /\ UNCHANGED <<failure_threshold, recovery_timeout, failure_count, last_failure_time,
                   now, seqVars, loaded, seen, started, fails, succs, retryVars, pureVars, handlerVars>>

ConcNext ==
    \/ ConcTick
    \/ \E t \in Threads : TBegin(t)
    \/ \E t \in Threads : TCheck(t)
    \/ \E t \in Threads : THalf(t)
    \/ \E t \in Threads : TReturn(t)
    \/ \E t \in Threads : TRaise(t)
    \/ \E t \in Threads : TSuccReset(t)
    \/ \E t \in Threads : TSuccCheck(t)
    \/ \E t \in Threads : TSuccClose(t)
    \/ \E t \in Threads : TFailLoad(t)
    \/ \E t \in Threads : TFailStore(t)
    \/ \E t \in Threads : TFailTime(t)
    \/ \E t \in Threads : TFailCheck(t)
    \/ \E t \in Threads : TFailOpen(t)

ConcSpec == ConcInit /\ [][ConcNext]_vars

\* ------------------------------------- CircuitBreaker: claims (ConcSpec)
\* C5: when the wrapped function fails while the breaker is HALF_OPEN, the
\* call ends with the state OPEN and last_failure_time the time of that
\* failure, also when calls on the shared breaker overlap.
C5_HalfOpenFailureReopens ==
    [][\A t \in Threads :
          (pc[t] \in {"f_check", "f_open"} /\ pc'[t] = "idle" /\ seen[t].state = "HALF_OPEN")
              => (state' = "OPEN" /\ last_failure_time' = seen[t].time)]_vars

\* C10: whenever no call is in progress, state, failure_count and
\* last_failure_time are what some one-at-a-time ordering of the calls made
\* so far leaves: the state is not HALF_OPEN, it is CLOSED exactly when
\* failure_count < failure_threshold, and with no success so far
\* failure_count is the number of failures recorded (no increment lost).
C10_SerialOutcome ==
    (\A t \in Threads : pc[t] = "idle")
        => /\ state # "HALF_OPEN"
           /\ state = "CLOSED" <=> failure_count < failure_threshold
           /\ succs = 0 => failure_count = fails

\* ------------------------------------------------------ retry_with_backoff
Min(a, b) == IF a <= b THEN a ELSE b

RECURSIVE Pow(_, _)
Pow(b, n) == IF n = 0 THEN 1 ELSE b * Pow(b, n - 1)

\* _is_retryable_aws_error: the two fixed code sets
retryable_codes ==
    {"ThrottlingException", "ProvisionedThroughputExceededException", "RequestLimitExceeded",
     "ServiceUnavailable", "InternalServerError", "InternalError", "ServiceException",
     "SlowDown", "TooManyRequestsException"}

non_retryable_codes ==
    {"ValidationException", "InvalidParameterException", "AccessDeniedException",
     "UnauthorizedOperation", "InvalidDocumentException", "UnsupportedDocumentException",
     "DocumentTooLargeException", "BadDocumentException"}

\* variant: every code outside the non-retryable set is retried
IsRetryableAwsError_open(code, http) == code \notin non_retryable_codes

\* _is_retryable_aws_error on the error's code and HTTP status (0 when the
\* response carries none)
IsRetryableAwsError(code, http) ==
    IF code \in non_retryable_codes THEN FALSE
    ELSE IF code \in retryable_codes THEN TRUE
    ELSE 500 <= http /\ http < 600

\* variants: class compared by equality instead of isinstance; the loop
\* bound taken one short
IsRetryableError_exact(e, retryable) ==
    /\ e.type # "NonRetryableError"
    /\ e.type \in retryable
    /\ e.type = "ClientError" => IsRetryableAwsError(e.code, e.http)

IsLastAttempt_short(a, max_retries) == a >= max_retries - 1

Delay_next(c, a) ==
    LET raw == (c.initial_delay * Pow(c.num, a + 1)) \div Pow(c.den, a + 1)
    IN IF raw <= c.max_delay THEN raw ELSE c.max_delay

\* _is_retryable_error
IsRetryableError(e, retryable) ==
    IF IsInstance(e, "NonRetryableError") THEN FALSE
    ELSE IF \E c \in retryable : IsInstance(e, c)
         THEN (IF IsInstance(e, "ClientError") THEN IsRetryableAwsError(e.code, e.http) ELSE TRUE)
         ELSE FALSE

\* if attempt == max_retries
IsLastAttempt(a, max_retries) == a = max_retries

\* min(initial_delay * (backoff_factor ** attempt), max_delay), delays in
\* milliseconds and backoff_factor = num / den
Delay(c, a) == Min((c.initial_delay * Pow(c.num, a)) \div Pow(c.den, a), c.max_delay)

\* The decorators the module builds: the defaults of retry_with_backoff, the
\* three service presets, a caller's retryable_exceptions=[Exception], and a
\* caller's max_delay=3.0 (a cap the third delay runs into).
RetryCfgs ==
    { [max_retries |-> m, num |-> 2, den |-> 1, initial_delay |-> 1000, max_delay |-> 60000,
       retryable |-> {"RetryableError", "ClientError"}] : m \in 0..MaxRetries }
    \cup
    { [max_retries |-> m, num |-> 2, den |-> 1, initial_delay |-> 1000, max_delay |-> 30000,
       retryable |-> {"ClientError", "RetryableError"}] : m \in 0..MaxRetries }
    \cup
    { [max_retries |-> m, num |-> 3, den |-> 2, initial_delay |-> 2000, max_delay |-> 20000,
       retryable |-> {"ClientError", "RetryableError"}] : m \in 0..MaxRetries }
    \cup
    { [max_retries |-> m, num |-> 2, den |-> 1, initial_delay |-> 500, max_delay |-> 10000,
       retryable |-> {"ClientError", "RetryableError"}] : m \in 0..MaxRetries }
    \cup
    { [max_retries |-> m, num |-> 2, den |-> 1, initial_delay |-> 100, max_delay |-> 60000,
       retryable |-> {"Exception"}] : m \in 0..MaxRetries }
    \cup
    { [max_retries |-> m, num |-> 2, den |-> 1, initial_delay |-> 1000, max_delay |-> 3000,
       retryable |-> {"RetryableError", "ClientError"}] : m \in 0..MaxRetries }

\* What the wrapped function does on one invocation.
Ok(v) == [kind |-> "ok", val |-> v, type |-> "none", code |-> "", http |-> 0]

Raises(t, code, http) == [kind |-> "raise", val |-> "none", type |-> t, code |-> code, http |-> http]

Outcomes ==
    {Ok("success")}
    \cup {Raises(t, "", 0) : t \in {"RetryableError", "NonRetryableError", "ValidationError", "ValueError"}}
    \cup {Raises("ClientError", "ThrottlingException", 400),
          Raises("ClientError", "AccessDeniedException", 500)}

\* the exception object raised by invocation number i
Raised(o, i) == [type |-> o.type, code |-> o.code, http |-> o.http, inv |-> i]

\* the function's behaviour on invocation number i
Behaviour(i) == script[Min(i, Len(script))]

RetryInit ==
    /\ failure_threshold = 1
    /\ recovery_timeout = 1
    /\ failure_count = 0
    /\ last_failure_time = NoTime
    /\ state = "CLOSED"
    /\ now = 0
    /\ lastCall = NoCall
    /\ streak = 0
    /\ forgiven = 0
    /\ IdleConc
    /\ IdlePure
    /\ IdleHandler
    /\ cfg \in RetryCfgs
    /\ script \in [1..(cfg.max_retries + 1) -> Outcomes]
    /\ attempt = 0
    /\ calls = 0
    /\ sleeps = <<>>
    /\ rstatus = "running"
    /\ rvalue = Nothing
    /\ last_exception = Nothing

InLoop == rstatus = "running" /\ attempt \in 0..cfg.max_retries

\* lines 44-47: func returns, the wrapper returns its result
RetryReturn ==
    /\ InLoop
    /\ Behaviour(calls + 1).kind = "ok"
    /\ calls' = calls + 1
    /\ rstatus' = "returned"
    /\ rvalue' = Returned(Behaviour(calls + 1).val)
    /\ UNCHANGED <<cbVars, now, seqVars, concVars, pureVars, handlerVars, cfg, script, attempt, sleeps, last_exception>>

\* lines 49-55: func raises an error that is not retryable, raise e
RetryRaiseNonRetryable ==
    /\ InLoop
    /\ Behaviour(calls + 1).kind = "raise"
    /\ ~IsRetryableError(Raised(Behaviour(calls + 1), calls + 1), cfg.retryable)
    /\ calls' = calls + 1
    /\ last_exception' = Raised(Behaviour(calls + 1), calls + 1)
    /\ rstatus' = "raised"
    /\ rvalue' = Raised(Behaviour(calls + 1), calls + 1)
    /\ UNCHANGED <<cbVars, now, seqVars, concVars, pureVars, handlerVars, cfg, script, attempt, sleeps>>

\* lines 57-60: func raises a retryable error on the last attempt, raise e
RetryRaiseExhausted ==
    /\ InLoop
    /\ Behaviour(calls + 1).kind = "raise"
    /\ IsRetryableError(Raised(Behaviour(calls + 1), calls + 1), cfg.retryable)
    /\ IsLastAttempt(attempt, cfg.max_retries)
    /\ calls' = calls + 1
    /\ last_exception' = Raised(Behaviour(calls + 1), calls + 1)
    /\ rstatus' = "raised"
    /\ rvalue' = Raised(Behaviour(calls + 1), calls + 1)
    /\ UNCHANGED <<cbVars, now, seqVars, concVars, pureVars, handlerVars, cfg, script, attempt, sleeps>>

\* lines 62-70: func raises a retryable error before the last attempt:
\* time.sleep(delay), next iteration
RetrySleep ==
    /\ InLoop
    /\ Behaviour(calls + 1).kind = "raise"
    /\ IsRetryableError(Raised(Behaviour(calls + 1), calls + 1), cfg.retryable)
    /\ ~IsLastAttempt(attempt, cfg.max_retries)
    /\ calls' = calls + 1
    /\ last_exception' = Raised(Behaviour(calls + 1), calls + 1)
    /\ sleeps' = Append(sleeps, Delay(cfg, attempt))
    /\ attempt' = attempt + 1
    /\ UNCHANGED <<cbVars, now, seqVars, concVars, pureVars, handlerVars, cfg, script, rstatus, rvalue>>

\* Every iteration returns, raises or goes on to the next one, and the last
\* one (attempt = max_retries) never goes on: line 73 is not reached for
\* max_retries >= 0.
RetryNext ==
    \/ RetryReturn
    \/ RetryRaiseNonRetryable
    \/ RetryRaiseExhausted
    \/ RetrySleep

RetrySpec == RetryInit /\ [][RetryNext]_vars

\* ------------------------------------ retry_with_backoff: claims (RetrySpec)
RetryableFailure == Raises("RetryableError", "", 0)

\* the function fails with RetryableError on its first k invocations and
\* succeeds on the next
FailsThenSucceeds(k) ==
    /\ k + 1 <= Len(script)
    /\ \A i \in 1..k : script[i] = RetryableFailure
    /\ script[k + 1].kind = "ok"

\* C7: a function that fails with RetryableError on its first k invocations
\* (0 <= k <= max_retries) and then succeeds is invoked exactly k + 1 times
\* and the wrapper returns its result.
C7_RetryUntilSuccess ==
    \A k \in 0..cfg.max_retries :
        FailsThenSucceeds(k)
            => /\ calls <= k + 1
               /\ rstatus # "raised"
               /\ calls = k + 1 <=> rstatus = "returned"
               /\ rstatus = "returned" => rvalue = Returned(script[k + 1].val)

C7_Witness ==
    /\ cfg.max_retries = MaxRetries
    /\ FailsThenSucceeds(cfg.max_retries)
    /\ rstatus = "returned"
    /\ calls = cfg.max_retries + 1
    /\ Len(sleeps) = cfg.max_retries

AlwaysFails == \A i \in 1..Len(script) : script[i] = RetryableFailure

\* C8: a function that fails with RetryableError on every invocation is
\* invoked exactly max_retries + 1 times; the wrapper then stops and raises
\* the error of the last invocation.
C8_RetryExhaustion ==
    AlwaysFails
        => /\ calls <= cfg.max_retries + 1
           /\ rstatus # "returned"
           /\ calls = cfg.max_retries + 1 <=> rstatus = "raised"
           /\ rstatus = "raised"
                => /\ rvalue = Raised(RetryableFailure, cfg.max_retries + 1)
                   /\ ~ENABLED RetryNext

C8_Witness ==
    /\ cfg.max_retries = MaxRetries
    /\ AlwaysFails
    /\ rstatus = "raised"
    /\ calls = cfg.max_retries + 1
    /\ rvalue.inv = calls

\* the first invocation raises an error that is a NonRetryableError, a
\* ValidationError, or an instance of no class of the retryable set
FirstFailsNonRetryable ==
    /\ script[1].kind = "raise"
    /\ \/ script[1].type \in {"NonRetryableError", "ValidationError"}
       \/ ~\E c \in cfg.retryable : IsInstance(script[1], c)

\* C9: a function whose error is a NonRetryableError, a ValidationError or
\* not a member of the retryable set is invoked exactly once, with no
\* suspension, and that error is raised to the caller.
C9_NonRetryableOnce ==
    (FirstFailsNonRetryable /\ calls >= 1)
        => /\ calls = 1
           /\ sleeps = <<>>
           /\ rstatus = "raised"
           /\ rvalue = Raised(script[1], 1)

\* C12: before attempt a + 1 the wrapper has suspended once after each of
\* the attempts 0..a, after attempt i for min(initial_delay *
\* backoff_factor^i, max_delay); no suspension exceeds max_delay, the
\* suspensions never decrease, none follows the final attempt, and the
\* presets give 1s, 2s, 4s (OCR), 2s, 3s (AI) and 0.5s, 1s, 2s (datastore).
C12_BackoffDelays ==
    /\ Len(sleeps) = attempt
    /\ rstatus # "running" => Len(sleeps) = calls - 1
    /\ \A i \in 1..Len(sleeps) :
          LET raw == (cfg.initial_delay * Pow(cfg.num, i - 1)) \div Pow(cfg.den, i - 1)
          IN /\ sleeps[i] = IF raw < cfg.max_delay THEN raw ELSE cfg.max_delay
             /\ sleeps[i] <= cfg.max_delay
             /\ i > 1 => sleeps[i - 1] <= sleeps[i]
    /\ \A i \in 1..Len(sleeps) :
          /\ (cfg.max_delay = 30000 /\ cfg.max_retries = 3) => sleeps[i] = <<1000, 2000, 4000>>[i]
          /\ (cfg.max_delay = 20000 /\ cfg.max_retries = 2) => sleeps[i] = <<2000, 3000>>[i]
          /\ (cfg.max_delay = 10000 /\ cfg.max_retries = 3) => sleeps[i] = <<500, 1000, 2000>>[i]

\* the cap is met: the third delay of a 1s, factor 2 backoff is cut to 3s
C12_Witness ==
    /\ cfg.max_delay = 3000
    /\ rstatus = "raised"
    /\ calls = 4
    /\ sleeps = <<1000, 2000, 3000>>

\* the four kinds of failure the layer is to hand to its caller
Taxonomy == {"ValidationError", "RetryableError", "NonRetryableError", "CircuitOpenError"}

\* C19: every failure that leaves the retry wrapper is a ValidationError, a
\* RetryableError, a NonRetryableError or a CircuitOpenError; no raw
\* dependency exception (ClientError) reaches the caller as it is.
C19_OnlyTaxonomyErrors == rstatus = "raised" => rvalue.type \in Taxonomy

\* ---------------------------------- CircuitBreaker: further claims (Spec)
\* C20: a call rejected because the breaker is OPEN fails with the error
\* kind CircuitOpenError, a kind no wrapped function's failure has.
C20_RejectionIsCircuitOpenError ==
    (lastCall.outcome = "raised" /\ lastCall.invoked = 0)
        => lastCall.value.type = "CircuitOpenError"

\* C27: with calls made one at a time, the breaker is CLOSED exactly when
\* failure_count < failure_threshold; a call that runs HALF_OPEN found
\* failure_count >= failure_threshold; OPEN implies last_failure_time is
\* set.
C27_StateMatchesCount ==
    /\ state = "CLOSED" <=> failure_count < failure_threshold
    /\ state \in {"OPEN", "HALF_OPEN"} => failure_count >= failure_threshold
    /\ lastCall.invoke_state = "HALF_OPEN" => lastCall.pre_count >= failure_threshold
    /\ state = "OPEN" => last_failure_time # NoTime

\* reopened by a failing trial call, the count above the threshold
C27_Witness ==
    /\ state = "OPEN"
    /\ lastCall.invoke_state = "HALF_OPEN"
    /\ lastCall.outcome = "raised"
    /\ failure_count > failure_threshold
    /\ failure_threshold >= 2

\* C28: a call rejected while OPEN leaves state, failure_count and
\* last_failure_time as they were, so the first moment at which a call is
\* admitted stays last_failure_time + recovery_timeout + 1 however many
\* calls were rejected.
C28_RejectionWritesNothing ==
    (lastCall.outcome = "raised" /\ lastCall.invoked = 0)
        => /\ state = lastCall.pre_state
           /\ failure_count = lastCall.pre_count
           /\ last_failure_time = lastCall.pre_lft
           /\ ~Rejects(state, lastCall.pre_lft + recovery_timeout + 1, last_failure_time, recovery_timeout)

\* rejected at the last tick of the cooldown
C28_Witness ==
    /\ lastCall.outcome = "raised"
    /\ lastCall.invoked = 0
    /\ lastCall.at = lastCall.pre_lft + recovery_timeout
    /\ recovery_timeout >= 2
    /\ state = "OPEN"

\* C29: whatever the class of the exception the wrapped function raises,
\* the call adds one to failure_count, records the time, opens the
\* breaker when the count reaches the threshold, and raises that same
\* exception.
C29_EveryExceptionCounts ==
    (lastCall.invoked = 1 /\ lastCall.func.type # "result")
        => /\ failure_count = lastCall.pre_count + 1
           /\ last_failure_time = lastCall.failed_at
           /\ (failure_count >= failure_threshold => state = "OPEN")
           /\ lastCall.outcome = "raised"
           /\ lastCall.value = lastCall.func

\* a ValidationError opens a CLOSED breaker
C29_Witness ==
    /\ lastCall.invoked = 1
    /\ lastCall.func = FuncError("ValidationError")
    /\ lastCall.pre_state = "CLOSED"
    /\ lastCall.pre_count = failure_threshold - 1
    /\ failure_threshold >= 2
    /\ state = "OPEN"

\* ------------------------------------------------ _is_retryable_aws_error
\* the breaker and the retry wrapper take no part in the specifications below
IdleResilience ==
    /\ failure_threshold = 1
    /\ recovery_timeout = 1
    /\ failure_count = 0
    /\ last_failure_time = NoTime
    /\ state = "CLOSED"
    /\ now = 0
    /\ lastCall = NoCall
    /\ streak = 0
    /\ forgiven = 0
    /\ IdleConc
    /\ IdleRetry

resVars == <<cbVars, now, seqVars, concVars, retryVars>>

\* error codes: the two fixed sets, no code at all, and codes in neither set
AwsCodes == retryable_codes \cup non_retryable_codes \cup {"", "UnknownException", "ResourceNotFoundException"}

\* HTTPStatusCode of the response, 0 when the response carries none
HttpStatuses == {0, 200, 400, 404, 429, 499, 500, 503, 599, 600}

ClassifyInit ==
    /\ IdleResilience
    /\ IdleHandler
    /\ awsErr \in [code : AwsCodes, http : HttpStatuses]
    /\ awsVerdict = "none"
    /\ rule_result = Nothing
    /\ ai_result = Nothing
    /\ merged = Nothing
    /\ merged_real = Nothing
    /\ mstage = "unused"
    /\ inferIn = Nothing
    /\ inferOut = Nothing
    /\ IdleExtract

\* _is_retryable_aws_error(error)
Classify ==
    /\ awsVerdict = "none"
    /\ awsVerdict' = IF IsRetryableAwsError(awsErr.code, awsErr.http) THEN "retryable" ELSE "non_retryable"
    /\ UNCHANGED <<handlerVars, extractVars, resVars, awsErr, rule_result, ai_result, merged, merged_real, mstage, inferIn, inferOut>>

ClassifyNext == Classify

ClassifySpec == ClassifyInit /\ [][ClassifyNext]_vars

\* C11: the classifier gives a verdict for every (code, status): a code of
\* the non-retryable set is not retried, a code of the retryable set is,
\* and any other code is retried exactly when the status is in 500..599.
C11_ClassifierTotal ==
    awsVerdict # "none"
        => /\ awsVerdict \in {"retryable", "non_retryable"}
           /\ awsErr.code \in non_retryable_codes => awsVerdict = "non_retryable"
           /\ awsErr.code \in retryable_codes => awsVerdict = "retryable"
           /\ awsErr.code \notin (retryable_codes \cup non_retryable_codes)
                => (awsVerdict = "retryable" <=> (awsErr.http >= 500 /\ awsErr.http <= 599))

\* an unrecognized code with a 4xx status is not retried
C11_Witness ==
    /\ awsErr.code = "UnknownException"
    /\ awsErr.http = 429
    /\ awsVerdict = "non_retryable"

\* ------------------------------------------------ merge_extraction_results
\* Python values: t is the type, v the payload. A str is its sequence of
\* characters, a number its value (int and float alike), a list its items.
Absent == [t |-> "absent", v |-> 0]

None == [t |-> "none", v |-> 0]

Num(n) == [t |-> "num", v |-> n]

Str(s) == [t |-> "str", v |-> s]

Bool(b) == [t |-> "bool", v |-> b]

List(l) == [t |-> "list", v |-> l]

Keys ==
    {"vendor", "amount", "date", "invoice_number", "tax_amount", "currency",
     "line_items", "extraction_method", "confidence", "notes"}

rule_based == Str(<<"r", "u", "l", "e", "_", "b", "a", "s", "e", "d">>)

bedrock_ai == Str(<<"b", "e", "d", "r", "o", "c", "k", "_", "a", "i">>)

bedrock_failed == Str(<<"b", "e", "d", "r", "o", "c", "k", "_", "f", "a", "i", "l", "e", "d">>)

hybrid_ai_rules == Str(<<"h", "y", "b", "r", "i", "d", "_", "a", "i", "_", "r", "u", "l", "e", "s">>)

high == Str(<<"h", "i", "g", "h">>)

medium == Str(<<"m", "e", "d", "i", "u", "m">>)

low == Str(<<"l", "o", "w">>)

\* bool(value)
Truthy(x) ==
    CASE x.t = "num" -> x.v # 0
      [] x.t = "str" -> Len(x.v) > 0
      [] x.t = "bool" -> x.v
      [] x.t = "list" -> Len(x.v) > 0
      [] OTHER -> FALSE

Whitespace == {" ", "\t", "\n"}

RECURSIVE LStrip(_)
LStrip(s) == IF s # <<>> /\ Head(s) \in Whitespace THEN LStrip(Tail(s)) ELSE s

RECURSIVE RStrip(_)
RStrip(s) == IF s # <<>> /\ s[Len(s)] \in Whitespace THEN RStrip(SubSeq(s, 1, Len(s) - 1)) ELSE s

\* str.strip()
Strip(s) == RStrip(LStrip(s))

RECURSIVE DecLen(_)
DecLen(n) == IF n < 0 THEN 1 + DecLen(-n) ELSE IF n < 10 THEN 1 ELSE 1 + DecLen(n \div 10)

\* len(str(value)): a str is itself, a number its decimal digits (floats
\* print with ".0"), True is "True", a list prints at least its brackets
StrLen(x) ==
    CASE x.t = "str" -> Len(x.v)
      [] x.t = "num" -> DecLen(x.v)
      [] x.t = "bool" -> IF x.v THEN 4 ELSE 5
      [] x.t = "list" -> 2 + 8 * Len(x.v)
      [] OTHER -> 4

\* str(value).strip() is not empty
StrNonBlank(x) == IF x.t = "str" THEN Strip(x.v) # <<>> ELSE TRUE

\* isinstance(value, (int, float)): bool is a subclass of int
IsNumber(x) == x.t \in {"num", "bool"}

NumVal(x) == IF x.t = "bool" THEN (IF x.v THEN 1 ELSE 0) ELSE x.v

\* float(value)
Float(x) == Num(NumVal(x))

Digits == {"0", "1", "2", "3", "4", "5", "6", "7", "8", "9"}

\* re.match(r'\d{4}-\d{2}-\d{2}', value): the pattern at the start of value
MatchesDatePrefix(s) ==
    /\ Len(s) >= 10
    /\ \A i \in {1, 2, 3, 4, 6, 7, 9, 10} : s[i] \in Digits
    /\ s[5] = "-"
    /\ s[8] = "-"

\* variants: the sentinel test left out; the confidence label taken from
\* the rule-based record's method
IsFailed_never(ai) == FALSE

Confidence_rule(rule, ai) == IF rule["extraction_method"] = bedrock_ai THEN high ELSE medium

\* model_helpers.py line 346: ai_result.get('extraction_method') == 'bedrock_failed'
IsFailed(ai) == ai["extraction_method"] = bedrock_failed

\* model_helpers.py line 371
Confidence(rule, ai) == IF ai["extraction_method"] = bedrock_ai THEN high ELSE medium

\* model_helpers.py lines 352-368: merged[key] after the loop, rv the
\* rule-based value and av the AI value of the key (Absent: no such key)
MergeField(key, rv, av) ==
    IF av = Absent THEN rv
    ELSE IF key = "extraction_method" THEN hybrid_ai_rules
    ELSE IF ~(Truthy(av) /\ StrNonBlank(av)) THEN rv
    ELSE IF key = "amount" /\ IsNumber(av) /\ NumVal(av) > 0 THEN Float(av)
    ELSE IF key = "tax_amount" /\ IsNumber(av) /\ NumVal(av) >= 0 THEN Float(av)
    ELSE IF key = "date" /\ av.t = "str" /\ Len(av.v) >= 8
         THEN (IF MatchesDatePrefix(av.v) THEN av ELSE rv)
    ELSE IF key \in {"vendor", "invoice_number", "currency"} /\ av.t = "str" /\ Len(Strip(av.v)) > 1
         THEN Str(Strip(av.v))
    ELSE rv

\* model_helpers.merge_extraction_results
Merge(rule, ai) ==
    IF IsFailed(ai) THEN rule
    ELSE [k \in Keys |-> IF k = "confidence" THEN Confidence(rule, ai)
                         ELSE MergeField(k, rule[k], ai[k])]

\* real_model_helpers.py lines 272-284: every branch of the chain stores
\* the AI value
RealMergeField(key, rv, av) ==
    IF av = Absent THEN rv
    ELSE IF ~(Truthy(av) /\ av # bedrock_failed) THEN rv
    ELSE IF key = "amount" /\ IsNumber(av) /\ NumVal(av) > 0 THEN av
    ELSE IF key = "date" /\ StrLen(av) >= 8 THEN av
    ELSE IF key \in {"vendor", "invoice_number"} /\ StrLen(av) > 1 THEN av
    ELSE IF key = "line_items" /\ av.t = "list" THEN av
    ELSE av

\* real_model_helpers.py lines 287-292
RealConfidence(rule, ai) ==
    IF ai["extraction_method"] = bedrock_ai THEN high
    ELSE IF rule["extraction_method"] = rule_based THEN medium
    ELSE low

\* real_model_helpers.merge_extraction_results
RealMerge(rule, ai) ==
    [k \in Keys |-> IF k = "confidence" THEN RealConfidence(rule, ai)
                    ELSE RealMergeField(k, rule[k], ai[k])]

Item(d, a) == [description |-> d, amount |-> a]

\* records extract_with_rules returns: every field found, and nothing found
RuleRecords ==
    { [k \in Keys |->
         CASE k = "vendor" -> Str(<<"A", "C", "M", "E", " ", "C", "o", "r", "p">>)
           [] k = "amount" -> Num(100)
           [] k = "date" -> Str(<<"2", "0", "2", "4", "-", "0", "1", "-", "3", "1">>)
           [] k = "invoice_number" -> Str(<<"I", "N", "V", "-", "1">>)
           [] k = "tax_amount" -> Num(8)
           [] k = "currency" -> Str(<<"U", "S", "D">>)
           [] k = "line_items" -> List(<<Item("Widget", 60), Item("Gadget", 40)>>)
           [] k = "extraction_method" -> rule_based
           [] OTHER -> Absent],
      [k \in Keys |->
         CASE k = "currency" -> Str(<<"U", "S", "D">>)
           [] k = "line_items" -> List(<<>>)
           [] k = "extraction_method" -> rule_based
           [] k \in {"confidence", "notes"} -> Absent
           [] OTHER -> None] }

\* what the AI pass may hand over for each key (Absent: the key is missing)
AiCandidates(k) ==
    CASE k = "extraction_method" -> {Absent, bedrock_ai, bedrock_failed, rule_based}
      [] k = "amount" -> {Absent, None, Num(0), Num(-5), Num(250), Str(<<"a", "b", "c">>), Bool(TRUE)}
      [] k = "tax_amount" -> {Absent, Num(0), Num(-1), Num(17)}
      [] k = "date" -> {Absent, Str(<<"2", "0", "2", "4", "-", "0", "3", "-", "1", "5">>), Str(<<"2", "0", "2", "4", "-", "0", "3", "-", "1", "5", "T", "0", "9", ":", "3", "0">>), Str(<<"0", "3", "/", "1", "5", "/", "2", "0", "2", "4">>)}
      [] k = "vendor" -> {Absent, Str(<<" ", "G", " ">>), Str(<<" ", "G", "l", "o", "b", "e", "x", " ">>)}
      [] k = "invoice_number" -> {Absent}
      [] k = "currency" -> {Absent, Str(<<"E", "U", "R">>)}
      [] k = "line_items" -> {Absent, List(<<>>), List(<<Item("Service", 250)>>)}
      [] k = "confidence" -> {Absent, low}
      [] k = "notes" -> {Absent, Str(<<"p", "a", "i", "d">>)}

AiResults ==
    [vendor : AiCandidates("vendor"), amount : AiCandidates("amount"),
     date : AiCandidates("date"), invoice_number : AiCandidates("invoice_number"),
     tax_amount : AiCandidates("tax_amount"), currency : AiCandidates("currency"),
     line_items : AiCandidates("line_items"),
     extraction_method : AiCandidates("extraction_method"),
     confidence : AiCandidates("confidence"), notes : AiCandidates("notes")]

MergeInit ==
    /\ IdleResilience
    /\ IdleHandler
    /\ awsErr = Nothing
    /\ awsVerdict = "none"
    /\ rule_result \in RuleRecords
    /\ ai_result \in AiResults
    /\ merged = Nothing
    /\ merged_real = Nothing
    /\ mstage = "inputs"
    /\ inferIn = Nothing
    /\ inferOut = Nothing
    /\ IdleExtract

\* model_helpers.merge_extraction_results(rule_result, ai_result)
DoMerge ==
    /\ mstage = "inputs"
    /\ merged = Nothing
    /\ merged' = Merge(rule_result, ai_result)
    /\ UNCHANGED <<handlerVars, extractVars, resVars, awsErr, awsVerdict, rule_result, ai_result, merged_real, mstage, inferIn, inferOut>>

\* real_model_helpers.merge_extraction_results(rule_result, ai_result)
DoRealMerge ==
    /\ mstage = "inputs"
    /\ merged_real = Nothing
    /\ merged_real' = RealMerge(rule_result, ai_result)
    /\ UNCHANGED <<handlerVars, extractVars, resVars, awsErr, awsVerdict, rule_result, ai_result, merged, mstage, inferIn, inferOut>>

MergeNext == DoMerge \/ DoRealMerge

MergeSpec == MergeInit /\ [][MergeNext]_vars

\* --------------------------- merge_extraction_results: claims (MergeSpec)
\* C13: when the AI result carries extraction_method = 'bedrock_failed',
\* the reconciler returns the rule-based record unchanged, whatever other
\* keys the AI result holds.
C13_FailedReturnsRules ==
    (merged # Nothing /\ ai_result["extraction_method"] = bedrock_failed)
        => /\ merged = rule_result
           /\ merged["extraction_method"] = rule_based

C13_Witness ==
    /\ merged # Nothing
    /\ ai_result["extraction_method"] = bedrock_failed
    /\ ai_result["amount"] = Num(250)
    /\ ai_result["vendor"] = Str(<<" ", "G", "l", "o", "b", "e", "x", " ">>)
    /\ rule_result["amount"] = Num(100)
    /\ merged["amount"] = Num(100)

\* the validity checks of the reconciliation policy, field by field
ValidCandidate(key, av) ==
    CASE key = "amount" -> av.t = "num" /\ av.v > 0
      [] key = "tax_amount" -> av.t = "num" /\ av.v >= 0
      [] key = "date" -> av.t = "str" /\ Len(av.v) >= 8 /\ MatchesDatePrefix(av.v)
      [] key \in {"vendor", "invoice_number", "currency"} -> av.t = "str" /\ Len(Strip(av.v)) > 1
      [] key = "line_items" -> av.t = "list"
      [] OTHER -> Truthy(av)

DataKeys == Keys \ {"extraction_method", "confidence"}

\* the merged value of a field is the rule-based one or a valid AI
\* candidate (a str possibly trimmed), and never absent where the
\* rule-based one is present
NeverRegresses(m) ==
    /\ \A k \in DataKeys :
          /\ \/ m[k] = rule_result[k]
             \/ /\ ValidCandidate(k, ai_result[k])
                /\ \/ m[k] = ai_result[k]
                   \/ ai_result[k].t = "str" /\ m[k] = Str(Strip(ai_result[k].v))
          /\ rule_result[k] \notin {Absent, None} => m[k] \notin {Absent, None}
    /\ (rule_result["amount"].t = "num" /\ rule_result["amount"].v > 0
            /\ ~(ai_result["amount"].t = "num" /\ ai_result["amount"].v > 0))
        => m["amount"] = rule_result["amount"]

\* C14: every field of the merged record is the rule-based value or an AI
\* candidate that passed the field's validity check; an absent, zero,
\* negative or non-numeric AI amount leaves a valid rule-based amount in
\* place (both reconcilers).
C14_NeverRegresses ==
    /\ merged # Nothing => NeverRegresses(merged)
    /\ merged_real # Nothing => NeverRegresses(merged_real)

\* C15: the output's extraction_method is 'hybrid_ai_rules' exactly when
\* the AI result does not carry 'bedrock_failed', AI results without an
\* extraction_method key included.
C15_HybridIffNotFailed ==
    merged # Nothing
        => (merged["extraction_method"] = hybrid_ai_rules
                <=> ai_result["extraction_method"] # bedrock_failed)

\* C16: when the AI result does not carry the sentinel, the merged record's
\* confidence is 'high' if the AI's extraction_method is 'bedrock_ai' and
\* 'medium' otherwise, and no other value.
C16_ConfidenceLabel ==
    (merged # Nothing /\ ai_result["extraction_method"] # bedrock_failed)
        => /\ merged["confidence"] \in {high, medium}
           /\ merged["confidence"] = high <=> ai_result["extraction_method"] = bedrock_ai

C16_Witness ==
    /\ merged # Nothing
    /\ ai_result["extraction_method"] = bedrock_ai
    /\ ai_result["confidence"] = low
    /\ merged["confidence"] = high

\* C17: when a non-failed AI result holds a list under line_items, the
\* merged record's line_items is that list (both reconcilers).
C17_LineItemsReplaced ==
    (ai_result["extraction_method"] # bedrock_failed /\ ai_result["line_items"].t = "list")
        => /\ merged # Nothing => merged["line_items"] = ai_result["line_items"]
           /\ merged_real # Nothing => merged_real["line_items"] = ai_result["line_items"]

\* exactly YYYY-MM-DD
IsIsoDate(x) == x.t = "str" /\ Len(x.v) = 10 /\ MatchesDatePrefix(x.v)

\* C23: the date of a record handed out by reconciliation is, when present,
\* exactly of the form YYYY-MM-DD; an AI date that only starts with such a
\* prefix is not taken over.
C23_DateExactForm ==
    merged # Nothing
        => \/ merged["date"] \in {Absent, None}
           \/ IsIsoDate(merged["date"])

\* ------------------------------------------------------ infer_invoice_data
\* raw_text is None: len(full_text) raises TypeError
NoText == -1

\* keys infer_invoice_data adds to the record it returns
MetaKeys == {"textract_confidence", "text_length"}

\* {'extraction_method': 'bedrock_failed'}
Sentinel == [k \in Keys |-> IF k = "extraction_method" THEN bedrock_failed ELSE Absent]

\* JSON objects the model's answer may hold
InferJson ==
    {a \in AiResults : /\ a.notes = Absent
                       /\ a.confidence = Absent
                       /\ a.currency = Absent
                       /\ a.line_items = Absent
                       /\ a.tax_amount \in {Absent, Num(17)}}

\* what the Bedrock call does: invoke_model raises, the response body is not
\* the expected JSON envelope, the answer text holds no {...}, the {...} is
\* not valid JSON, or it is a JSON object
BedrockResponses ==
    {[kind |-> k, parsed |-> Nothing] : k \in {"invoke_raises", "bad_envelope", "no_json", "malformed_json"}}
        \cup {[kind |-> "json", parsed |-> a] : a \in InferJson}

ExtractWithBedrock_nosentinel(resp) ==
    IF resp.kind = "json" THEN [resp.parsed EXCEPT !["extraction_method"] = bedrock_ai]
    ELSE [Sentinel EXCEPT !["extraction_method"] = bedrock_ai]

\* extract_with_bedrock(text): every exception and the missing match end in
\* the sentinel; a parsed object is stamped 'bedrock_ai'
ExtractWithBedrock(resp) ==
    IF resp.kind \in {"invoke_raises", "bad_envelope", "malformed_json"} THEN Sentinel
    ELSE IF resp.kind = "no_json" THEN Sentinel
    ELSE [resp.parsed EXCEPT !["extraction_method"] = bedrock_ai]

\* line 35: the AI pass runs
AiPassRuns(in) == in.bedrock_available /\ in.text_length > 50 /\ in.overall > 70

\* lines 46-47: final_result with the two metadata keys
WithMeta(rec, in) ==
    [k \in Keys \cup MetaKeys |->
        IF k = "textract_confidence" THEN Num(in.overall)
        ELSE IF k = "text_length" THEN Num(in.text_length)
        ELSE rec[k]]

\* datetime.now().strftime('%Y-%m-%d')
Todays ==
    {Str(<<"2", "0", "2", "4", "-", "0", "1", "-", "3", "1">>),
     Str(<<"2", "0", "2", "4", "-", "0", "2", "-", "0", "1">>)}

\* str(e) of the TypeError len(None) raises
NoLenMessage ==
    Str(<<"o", "b", "j", "e", "c", "t", " ", "o", "f", " ", "t", "y", "p", "e", " ",
          "'", "N", "o", "n", "e", "T", "y", "p", "e", "'", " ",
          "h", "a", "s", " ", "n", "o", " ", "l", "e", "n", "(", ")">>)

\* lines 56-63: the minimal fallback result
Fallback(today, msg) ==
    [vendor |-> Str(<<"U", "n", "k", "n", "o", "w", "n">>),
     amount |-> Num(0),
     date |-> today,
     invoice_number |-> Str(<<"N", "/", "A">>),
     extraction_method |-> Str(<<"f", "a", "l", "l", "b", "a", "c", "k">>),
     error |-> msg]

InferInputs ==
    [rule : RuleRecords, bedrock_available : BOOLEAN, text_length : {NoText, 0, 50, 51},
     overall : {0, 70, 71}, response : BedrockResponses]

InferInit ==
    /\ IdleResilience
    /\ IdleHandler
    /\ awsErr = Nothing
    /\ awsVerdict = "none"
    /\ rule_result = Nothing
    /\ ai_result = Nothing
    /\ merged = Nothing
    /\ merged_real = Nothing
    /\ mstage = "unused"
    /\ inferIn \in InferInputs
    /\ inferOut = Nothing
    /\ IdleExtract

\* infer_invoice_data(extracted_data); rule_result, ai_result and merged
\* are its locals, Nothing while unassigned
InferInvoiceData ==
    /\ inferOut = Nothing
    /\ IF inferIn.text_length = NoText
       THEN /\ \E today \in Todays :
                 inferOut' = [raised |-> FALSE, value |-> Fallback(today, NoLenMessage)]
            /\ UNCHANGED <<rule_result, ai_result, merged>>
       ELSE /\ rule_result' = inferIn.rule
            /\ IF AiPassRuns(inferIn)
               THEN /\ ai_result' = ExtractWithBedrock(inferIn.response)
                    /\ merged' = Merge(inferIn.rule, ai_result')
                    /\ inferOut' = [raised |-> FALSE, value |-> WithMeta(merged', inferIn)]
               ELSE /\ inferOut' = [raised |-> FALSE, value |-> WithMeta(inferIn.rule, inferIn)]
                    /\ UNCHANGED <<ai_result, merged>>
    /\ UNCHANGED <<handlerVars, extractVars, resVars, awsErr, awsVerdict, merged_real, mstage, inferIn>>

InferNext == InferInvoiceData

InferSpec == InferInit /\ [][InferNext]_vars

\* the AI pass did not run, its Bedrock call gave no JSON object, or it
\* handed over the sentinel
AiMissingOrFailed ==
    \/ ~AiPassRuns(inferIn)
    \/ inferIn.response.kind # "json"
    \/ ai_result # Nothing /\ IsFailed(ai_result)

MaxLines == 2

UpperCase == <<"A", "B", "C", "D", "E", "F", "G", "H", "I", "J", "K", "L", "M", "N", "O", "P", "Q", "R", "S", "T", "U", "V", "W", "X", "Y", "Z">>

LowerCase == <<"a", "b", "c", "d", "e", "f", "g", "h", "i", "j", "k", "l", "m", "n", "o", "p", "q", "r", "s", "t", "u", "v", "w", "x", "y", "z">>

DigitChars == <<"0", "1", "2", "3", "4", "5", "6", "7", "8", "9">>

\* str.lower() and re.IGNORECASE on one character
LowerChar(c) ==
    IF \E i \in 1..26 : UpperCase[i] = c
    THEN LowerCase[CHOOSE i \in 1..26 : UpperCase[i] = c]
    ELSE c

\* the lower-case word w stands at position i of s, case ignored
WordAt(s, i, w) ==
    /\ i + Len(w) - 1 <= Len(s)
    /\ \A j \in 1..Len(w) : LowerChar(s[i + j - 1]) = w[j]

\* key.lower() in k.lower()
Contains(s, w) == \E i \in 1..(Len(s) - Len(w) + 1) : WordAt(s, i, w)

IsDigit(s, i) == i <= Len(s) /\ s[i] \in Digits

\* \d{0,max} at position i, greedy: how many digits it takes
RECURSIVE DigitRun(_, _, _)
DigitRun(s, i, max) == IF max > 0 /\ IsDigit(s, i) THEN 1 + DigitRun(s, i + 1, max - 1) ELSE 0

\* (?:,\d{3})* at position i: the position after it
RECURSIVE Groups(_, _)
Groups(s, i) ==
    IF i <= Len(s) /\ s[i] = "," /\ DigitRun(s, i + 1, 3) = 3 THEN Groups(s, i + 4) ELSE i

\* \d{1,3}(?:,\d{3})*\.?\d{0,2} at position i: the position after the
\* match, 0 when there is none
NumberEnd(s, i) ==
    LET d == DigitRun(s, i, 3)
        g == Groups(s, i + d)
        p == IF g <= Len(s) /\ s[g] = "." THEN g + 1 ELSE g
    IN  IF d = 0 THEN 0 ELSE p + DigitRun(s, p, 2)

\* [:\s]+ at position i, greedy: how many characters it takes
RECURSIVE SepRun(_, _)
SepRun(s, i) ==
    IF i <= Len(s) /\ s[i] \in ({":"} \cup Whitespace) THEN 1 + SepRun(s, i + 1) ELSE 0

NoMatch == [from |-> 0, to |-> 0]

\* the pattern \$(number)
DollarPattern == <<"$">>

\* \$(\d{1,3}(?:,\d{3})*\.?\d{0,2}) at position i: the captured group
DollarMatch(s, i) ==
    IF i <= Len(s) /\ s[i] = "$" /\ NumberEnd(s, i + 1) # 0
    THEN [from |-> i + 1, to |-> NumberEnd(s, i + 1)]
    ELSE NoMatch

\* label[:\s]+\$?(\d{1,3}(?:,\d{3})*\.?\d{0,2}) at position i
LabelMatch(s, i, w) ==
    LET a == i + Len(w)
        n == SepRun(s, a)
        b == a + n
        c == IF b <= Len(s) /\ s[b] = "$" THEN b + 1 ELSE b
    IN  IF WordAt(s, i, w) /\ n > 0 /\ NumberEnd(s, c) # 0
        THEN [from |-> c, to |-> NumberEnd(s, c)]
        ELSE NoMatch

MatchAt(s, i, pat) == IF pat = DollarPattern THEN DollarMatch(s, i) ELSE LabelMatch(s, i, pat)

\* re.findall(pattern, text, re.IGNORECASE): the captured groups of the
\* matches found from left to right, none overlapping
RECURSIVE FindFrom(_, _, _)
FindFrom(s, i, pat) ==
    IF i > Len(s) THEN <<>>
    ELSE IF MatchAt(s, i, pat) = NoMatch THEN FindFrom(s, i + 1, pat)
    ELSE <<SubSeq(s, MatchAt(s, i, pat).from, MatchAt(s, i, pat).to - 1)>>
            \o FindFrom(s, MatchAt(s, i, pat).to, pat)

FindAll(s, pat) == FindFrom(s, 1, pat)

\* characters re.sub(r'[$€£¥,\s]', '', ...) removes
CurrencyNoise == {"$", "€", "£", "¥", ","} \cup Whitespace

NotNoise(c) == c \notin CurrencyNoise

DigitVal(c) == CHOOSE n \in 0..9 : DigitChars[n + 1] = c

RECURSIVE IntOf(_)
IntOf(ds) == IF ds = <<>> THEN 0 ELSE IntOf(SubSeq(ds, 1, Len(ds) - 1)) * 10 + DigitVal(ds[Len(ds)])

AllDigits(ds) == \A i \in 1..Len(ds) : ds[i] \in Digits

\* float(cleaned) for the literals of the texts: digits, at most one point,
\* at most two decimals; anything else is a ValueError
FloatCents(cl) ==
    LET dot == IF \E i \in 1..Len(cl) : cl[i] = "." THEN CHOOSE i \in 1..Len(cl) : cl[i] = "." ELSE Len(cl) + 1
        whole == SubSeq(cl, 1, dot - 1)
        frac == SubSeq(cl, dot + 1, Len(cl))
    IN  IF AllDigits(whole) /\ AllDigits(frac) /\ Len(whole) + Len(frac) > 0 /\ Len(frac) <= 2
        THEN Num(IntOf(whole) * 100 + (IF Len(frac) = 1 THEN IntOf(frac) * 10 ELSE IntOf(frac)))
        ELSE None

\* parse_currency(value)
ParseCurrency(value) == IF value = <<>> THEN None ELSE FloatCents(SelectSeq(value, NotNoise))

\* amount and amount > 0
Positive(x) == x # None /\ x.v > 0

amount_keys ==
    <<<<"t", "o", "t", "a", "l">>,
      <<"a", "m", "o", "u", "n", "t">>,
      <<"b", "a", "l", "a", "n", "c", "e">>,
      <<"d", "u", "e">>,
      <<"g", "r", "a", "n", "d", " ", "t", "o", "t", "a", "l">>,
      <<"a", "m", "o", "u", "n", "t", " ", "d", "u", "e">>>>

amount_patterns ==
    <<<<"t", "o", "t", "a", "l">>,
      <<"a", "m", "o", "u", "n", "t">>,
      <<"b", "a", "l", "a", "n", "c", "e">>,
      <<"d", "u", "e">>,
      <<"$">>>>

tax_patterns ==
    <<<<"t", "a", "x">>,
      <<"v", "a", "t">>,
      <<"g", "s", "t">>,
      <<"s", "a", "l", "e", "s", " ", "t", "a", "x">>>>

\* lines 158-163: the first key-value pair, keys taken in the order of
\* amount_keys, whose value parses to a positive amount
RECURSIVE KvpScan(_, _, _)
KvpScan(kv, ki, pi) ==
    IF ki > Len(amount_keys) THEN None
    ELSE IF pi > Len(kv) THEN KvpScan(kv, ki + 1, 1)
    ELSE IF Contains(kv[pi].k, amount_keys[ki]) /\ Positive(ParseCurrency(kv[pi].v))
         THEN ParseCurrency(kv[pi].v)
    ELSE KvpScan(kv, ki, pi + 1)

\* the positive amounts among the captured groups, in order
RECURSIVE Positives(_)
Positives(caps) ==
    IF caps = <<>> THEN <<>>
    ELSE (IF Positive(ParseCurrency(Head(caps))) THEN <<ParseCurrency(Head(caps)).v>> ELSE <<>>)
            \o Positives(Tail(caps))

\* lines 174-180: found_amounts, pattern by pattern
RECURSIVE FoundAmounts(_, _)
FoundAmounts(text, pi) ==
    IF pi > Len(amount_patterns) THEN <<>>
    ELSE Positives(FindAll(text, amount_patterns[pi])) \o FoundAmounts(text, pi + 1)

\* a >= 1.0
Significant(a) == a >= 100

SeqMax_first(s) == s[1]

\* max(list)
SeqMax(s) == CHOOSE m \in {s[i] : i \in 1..Len(s)} : \A i \in 1..Len(s) : s[i] <= m

\* extract_amount(text, kvp)
ExtractAmount(text, kv) ==
    IF KvpScan(kv, 1, 1) # None THEN KvpScan(kv, 1, 1)
    ELSE LET found_amounts == FoundAmounts(text, 1)
             significant_amounts == SelectSeq(found_amounts, Significant)
         IN  IF found_amounts = <<>> THEN None
             ELSE IF significant_amounts # <<>> THEN Num(SeqMax(significant_amounts))
             ELSE Num(SeqMax(found_amounts))

\* extract_tax_amount(text): the first match of the first pattern that has
\* one and whose amount is positive
RECURSIVE TaxScan(_, _)
TaxScan(text, pi) ==
    IF pi > Len(tax_patterns) THEN None
    ELSE IF FindAll(text, tax_patterns[pi]) # <<>>
            /\ Positive(ParseCurrency(FindAll(text, tax_patterns[pi])[1]))
         THEN ParseCurrency(FindAll(text, tax_patterns[pi])[1])
    ELSE TaxScan(text, pi + 1)

ExtractTaxAmount(text) == TaxScan(text, 1)

\* '\n'.join(lines)
RECURSIVE Join(_)
Join(ls) ==
    IF ls = <<>> THEN <<>>
    ELSE IF Len(ls) = 1 THEN ls[1]
    ELSE ls[1] \o <<"\n">> \o Join(Tail(ls))

TotalLine == <<"T", "o", "t", "a", "l", ":", " ", "$", "2", ",", "1", "7", "0", ".", "0", "0">>

TaxRateLine == <<"T", "a", "x", " ", "(", "8", ".", "5", "%", ")", ":", " ", "$", "1", "7", "0", ".", "0", "0">>

TaxLine == <<"T", "A", "X", ":", " ", "$", "1", "7", "0", ".", "0", "0">>

SubtotalLine == <<"S", "u", "b", "t", "o", "t", "a", "l", ":", " ", " ", " ", "$", "2", ",", "0", "0", "0", ".", "0", "0">>

\* lines an invoice text is made of
TextLines ==
    {TotalLine, TaxRateLine, TaxLine, SubtotalLine,
     <<"$", "0", ".", "5", "0">>,
     <<"A", "m", "o", "u", "n", "t", " ", "D", "u", "e", " ", "0", ".", "7", "5">>,
     <<"R", "e", "f", " ", "1", "2", "3", "4", "5">>,
     <<"b", "a", "l", "a", "n", "c", "e", ":", " ", "$", "0", ".", "0", "0">>}

LineSeqs == UNION {[1..n -> TextLines] : n \in 0..MaxLines}

Pair(k, v) == [k |-> k, v |-> v]

\* key_value_pairs of the document, in the order of the dict
KvpChoices ==
    {<<>>,
     <<Pair(<<"T", "o", "t", "a", "l">>, <<"$", "9", ".", "9", "9">>)>>,
     <<Pair(<<"T", "o", "t", "a", "l">>, <<"N", "/", "A">>)>>,
     <<Pair(<<"N", "o", "t", "e", "s">>, <<"$", "9", ".", "9", "9">>), Pair(<<"B", "a", "l", "a", "n", "c", "e", " ", "D", "u", "e">>, <<"0", ".", "0", "0">>)>>}

ExtractInit ==
    /\ IdleResilience
    /\ IdleHandler
    /\ awsErr = Nothing
    /\ awsVerdict = "none"
    /\ rule_result = Nothing
    /\ ai_result = Nothing
    /\ merged = Nothing
    /\ merged_real = Nothing
    /\ mstage = "unused"
    /\ inferIn = Nothing
    /\ inferOut = Nothing
    /\ lines \in LineSeqs
    /\ kvp \in KvpChoices
    /\ amount_out = Nothing
    /\ tax_out = Nothing

\* extract_amount(text, key_value_pairs)
DoExtractAmount ==
    /\ amount_out = Nothing
    /\ amount_out' = ExtractAmount(Join(lines), kvp)
    /\ UNCHANGED <<handlerVars, resVars, awsErr, awsVerdict, rule_result, ai_result, merged, merged_real,
                   mstage, inferIn, inferOut, lines, kvp, tax_out>>

\* extract_tax_amount(text)
DoExtractTax ==
    /\ tax_out = Nothing
    /\ tax_out' = ExtractTaxAmount(Join(lines))
    /\ UNCHANGED <<handlerVars, resVars, awsErr, awsVerdict, rule_result, ai_result, merged, merged_real,
                   mstage, inferIn, inferOut, lines, kvp, amount_out>>

ExtractNext == DoExtractAmount \/ DoExtractTax

ExtractSpec == ExtractInit /\ [][ExtractNext]_vars

\* ------------------------------------------- extraction: claims (ExtractSpec)
\* the positive values the five patterns match anywhere in the text
MatchedValues(text) ==
    {ParseCurrency(SubSeq(text, MatchAt(text, i, amount_patterns[p]).from,
                                MatchAt(text, i, amount_patterns[p]).to - 1)).v :
        <<i, p>> \in {ip \in (1..Len(text)) \X (1..Len(amount_patterns)) :
                        /\ MatchAt(text, ip[1], amount_patterns[ip[2]]) # NoMatch
                        /\ Positive(ParseCurrency(SubSeq(text,
                                MatchAt(text, ip[1], amount_patterns[ip[2]]).from,
                                MatchAt(text, ip[1], amount_patterns[ip[2]]).to - 1)))}}

SetMax(S) == CHOOSE m \in S : \A x \in S : x <= m

\* the lines in another order
Reordered(ls) ==
    {[i \in 1..Len(ls) |-> ls[p[i]]] :
        p \in {q \in [1..Len(ls) -> 1..Len(ls)] : \A i, j \in 1..Len(ls) : q[i] = q[j] => i = j}}

\* C24: when no key-value pair yields a positive amount, extract_amount
\* returns the largest matched value that is >= 1.0 if there is one, else
\* the largest matched value, else None; the same lines in any other order
\* give the same result.
C24_LargestAmount ==
    (amount_out # Nothing /\ KvpScan(kvp, 1, 1) = None)
        => LET S == MatchedValues(Join(lines))
               big == {v \in S : v >= 100}
           IN  /\ amount_out = IF big # {} THEN Num(SetMax(big))
                               ELSE IF S # {} THEN Num(SetMax(S))
                               ELSE None
               /\ \A ls \in Reordered(lines) : ExtractAmount(Join(ls), kvp) = amount_out

\* the total stands first, smaller figures after it
C24_Witness ==
    /\ amount_out = Num(217000)
    /\ KvpScan(kvp, 1, 1) = None
    /\ kvp # <<>>
    /\ Len(lines) = 2
    /\ lines[1] = TotalLine
    /\ ExtractAmount(lines[2], <<>>) = Num(75)

\* C25: for a text with the lines 'Tax (8.5%): $170.00' and
\* 'Total: $2,170.00', rule-based extraction gives amount 2170.00 and
\* tax_amount 170.00.
C25_TaxWithRate ==
    (/\ amount_out # Nothing
     /\ tax_out # Nothing
     /\ kvp = <<>>
     /\ \E i, j \in 1..Len(lines) : lines[i] = TaxRateLine /\ lines[j] = TotalLine)
        => /\ amount_out = Num(217000)
           /\ tax_out = Num(17000)

\* ---------------------------------------------------- Lambda entry points
\* handler.lambda_handler is one action per invocation;
\* enhanced_handler.lambda_handler is one action for the event checks and
\* one per attempt of process_invoice_with_retry. Invocations run one
\* after the other; uuid4() hands out a value never seen before.
MaxInvocations == 2

\* process_invoice_with_retry(bucket, key, max_retries=3)
process_max_retries == 3

\* handler.py: supported_extensions
supported_extensions ==
    <<<<".", "p", "d", "f">>, <<".", "p", "n", "g">>, <<".", "j", "p", "g">>, <<".", "j", "p", "e", "g">>, <<".", "t", "i", "f", "f">>, <<".", "b", "m", "p">>>>

\* enhanced_handler.py line 42
enhanced_extensions ==
    <<<<".", "p", "d", "f">>, <<".", "p", "n", "g">>, <<".", "j", "p", "g">>, <<".", "j", "p", "e", "g">>>>

\* key.lower().endswith(w)
EndsWith(s, w) == Len(s) >= Len(w) /\ WordAt(s, Len(s) - Len(w) + 1, w)

\* key.lower().endswith(extensions)
Supported(key, exts) == \E i \in 1..Len(exts) : EndsWith(key, exts[i])

ObjectKeys ==
    {<<"a", ".", "p", "d", "f">>,
     <<"b", ".", "T", "I", "F", "F">>,
     <<"c", ".", "t", "x", "t">>}

\* the event: {} or one S3 record with an object key
Events ==
    {[kind |-> "no_records", key |-> <<>>]} \cup {[kind |-> "s3", key |-> k] : k \in ObjectKeys}

RuleFull == CHOOSE r \in RuleRecords : r["amount"] = Num(100)

RuleEmpty == CHOOSE r \in RuleRecords : r["amount"] = None

\* a JSON object in the model's answer
GlobexJson ==
    [Sentinel EXCEPT !["extraction_method"] = Absent,
                     !["amount"] = Num(250),
                     !["vendor"] = Str(<<" ", "G", "l", "o", "b", "e", "x", " ">>)]

\* documents the OCR step hands over, as infer_invoice_data reads them:
\* every field found or nothing found, the AI pass gated off or on, the
\* Bedrock call failing or answering
HandlerDocs ==
    {[rule |-> RuleFull, bedrock_available |-> TRUE, text_length |-> 51, overall |-> 0,
      response |-> [kind |-> "invoke_raises", parsed |-> Nothing]],
     [rule |-> RuleEmpty, bedrock_available |-> TRUE, text_length |-> 51, overall |-> 71,
      response |-> [kind |-> "invoke_raises", parsed |-> Nothing]],
     [rule |-> RuleFull, bedrock_available |-> TRUE, text_length |-> 51, overall |-> 71,
      response |-> [kind |-> "json", parsed |-> GlobexJson]]}

\* extract_text_from_s3(bucket, key): a document, or the exception of the
\* Textract call passed on
OcrOutcomes ==
    {[kind |-> "ClientError", doc |-> Nothing], [kind |-> "ValueError", doc |-> Nothing]}
        \cup {[kind |-> "document", doc |-> d] : d \in HandlerDocs}

\* table.put_item(Item=...): the item is written, or the call fails
PutOutcomes == {"stored", "ClientError"}

\* what infer_invoice_data(extracted_data) returns
InferValue(in, today) ==
    IF in.text_length = NoText THEN Fallback(today, NoLenMessage)
    ELSE IF AiPassRuns(in) THEN WithMeta(Merge(in.rule, ExtractWithBedrock(in.response)), in)
    ELSE WithMeta(in.rule, in)

\* dict.get(key, default)
Get(rec, key, default) == IF rec[key] = Absent THEN default ELSE rec[key]

\* a call to an external dependency: made at the call site itself, neither
\* inside a function built by retry_with_backoff nor through
\* CircuitBreaker.call
Direct(dep) == [dep |-> dep, retry |-> FALSE, breaker |-> FALSE]

\* the stored item, by the fields the claims read
StoredItem(id, key, result) ==
    [invoice_id |-> id,
     s3_key |-> key,
     vendor |-> Get(result, "vendor", Str(<<"U", "n", "k", "n", "o", "w", "n">>)),
     amount |-> Get(result, "amount", Num(0)),
     extraction_method |-> Get(result, "extraction_method", Str(<<"u", "n", "k", "n", "o", "w", "n">>))]

\* lines 96-105: float(final_item['amount']) raises TypeError on None
ResponseAfterPut(item) == IF item.amount = None THEN 500 ELSE 200

\* no invocation is running
NoneRunning == inv.handler = "none" \/ inv.status # 0

\* handler.lambda_handler(event, context)
HandlerInvoke(ev, ocr, put, today) ==
    /\ NoneRunning
    /\ invocations < MaxInvocations
    /\ invocations' = invocations + 1
    /\ IF ev.kind # "s3"
       THEN \* event['Records']: KeyError, caught at line 115
            /\ inv' = [handler |-> "handler", event |-> ev.kind, key |-> ev.key, status |-> 500,
                       attempt |-> 0, calls |-> <<>>, persist_ids |-> <<>>, stored |-> FALSE,
                       result |-> Nothing]
            /\ UNCHANGED <<table, ids>>
       ELSE IF ~Supported(ev.key, supported_extensions)
       THEN /\ inv' = [handler |-> "handler", event |-> ev.kind, key |-> ev.key, status |-> 400,
                       attempt |-> 0, calls |-> <<>>, persist_ids |-> <<>>, stored |-> FALSE,
                       result |-> Nothing]
            /\ UNCHANGED <<table, ids>>
       ELSE IF ocr.kind # "document"
       THEN /\ inv' = [handler |-> "handler", event |-> ev.kind, key |-> ev.key,
                       status |-> IF ocr.kind = "ValueError" THEN 400 ELSE 500,
                       attempt |-> 0, calls |-> <<Direct("ocr")>>, persist_ids |-> <<>>,
                       stored |-> FALSE, result |-> Nothing]
            /\ UNCHANGED <<table, ids>>
       ELSE LET inference_result == InferValue(ocr.doc, today)
                invoice_id == ids + 1
                final_item == StoredItem(invoice_id, ev.key, inference_result)
                made == <<Direct("ocr")>>
                            \o (IF AiPassRuns(ocr.doc) THEN <<Direct("ai")>> ELSE <<>>)
                            \o <<Direct("datastore")>>
            IN  /\ ids' = invoice_id
                /\ table' = IF put = "stored" THEN table \cup {final_item} ELSE table
                /\ inv' = [handler |-> "handler", event |-> ev.kind, key |-> ev.key,
                           status |-> IF put = "stored" THEN ResponseAfterPut(final_item) ELSE 500,
                           attempt |-> 0, calls |-> made, persist_ids |-> <<invoice_id>>,
                           stored |-> put = "stored", result |-> inference_result]
    /\ UNCHANGED <<dlq, dlq_url, resVars, pureVars>>

\* what extract_text_from_s3 hands to process_invoice_with_retry, which
\* reads it as a str: the Textract call fails, the dict of the OCR module,
\* a str of fewer than 10 characters, a longer str
EnhancedOcrKinds == {"ClientError", "document", "short_text", "text"}

\* str(e) of the AttributeError infer_invoice_data meets on a str
NoGetMessage == Str(<<"'", "s", "t", "r", "'", " ", "o", "b", "j", "e", "c", "t", " ", "h", "a", "s", " ", "n", "o", " ", "a", "t", "t", "r", "i", "b", "u", "t", "e", " ", "'", "g", "e", "t", "'">>)

\* validate_inference_result(result) raises nothing
ValidInference(result) == \A f \in {"vendor", "amount", "date"} : Truthy(result[f])

\* send_to_dlq(event, str(e))
SendToDlq(n) == IF dlq_url THEN n + 1 ELSE n

\* enhanced_handler.lambda_handler, lines 33-46: the event is read and the
\* file type checked; a bad event ends the invocation
EnhancedBegin(ev) ==
    /\ NoneRunning
    /\ invocations < MaxInvocations
    /\ invocations' = invocations + 1
    /\ LET status == IF ev.kind # "s3" THEN 500
                     ELSE IF ~Supported(ev.key, enhanced_extensions) THEN 400
                     ELSE 0
       IN  /\ inv' = [handler |-> "enhanced_handler", event |-> ev.kind, key |-> ev.key,
                      status |-> status, attempt |-> 0, calls |-> <<>>, persist_ids |-> <<>>,
                      stored |-> FALSE, result |-> Nothing]
           /\ dlq' = IF status # 0 THEN SendToDlq(dlq) ELSE dlq
    /\ UNCHANGED <<table, ids, dlq_url, resVars, pureVars>>

\* one attempt of process_invoice_with_retry (lines 78-112) and, after the
\* last one, the response of lambda_handler (lines 48-72)
EnhancedAttempt(ocr, put, today) ==
    /\ inv.handler = "enhanced_handler"
    /\ inv.status = 0
    /\ LET last == inv.attempt = process_max_retries - 1
           called == [inv EXCEPT !.calls = Append(@, Direct("ocr"))]
           \* infer_invoice_data(invoice_text) on a str
           result == Fallback(today, NoGetMessage)
           invoice_id == ids + 1
           saving == [called EXCEPT !.calls = Append(@, Direct("datastore")),
                                    !.persist_ids = Append(@, invoice_id)]
           \* the exception handlers of lines 104-112 and 58-72
           Fail(st, a) == IF last THEN [a EXCEPT !.status = st]
                          ELSE [a EXCEPT !.attempt = @ + 1]
           after == IF ocr = "ClientError" THEN Fail(400, called)
                    ELSE IF ocr = "document" THEN Fail(500, called)
                    ELSE IF ocr = "short_text" THEN Fail(400, called)
                    ELSE IF ~ValidInference(result) THEN Fail(400, called)
                    ELSE IF put = "stored" THEN [saving EXCEPT !.status = 200, !.stored = TRUE]
                    ELSE Fail(400, saving)
           reached_save == ocr = "text" /\ ValidInference(result)
       IN  /\ inv' = after
           /\ ids' = IF reached_save THEN invoice_id ELSE ids
           /\ table' = IF reached_save /\ put = "stored"
                       THEN table \cup {StoredItem(invoice_id, inv.key, result)}
                       ELSE table
           /\ dlq' = IF after.status \in {400, 500} THEN SendToDlq(dlq) ELSE dlq
    /\ UNCHANGED <<invocations, dlq_url, resVars, pureVars>>

HandlerInit ==
    /\ IdleResilience
    /\ IdlePure
    /\ table = {}
    /\ ids = 0
    /\ dlq = 0
    /\ invocations = 0
    /\ inv = NoInvocation
    /\ dlq_url \in BOOLEAN

HandlerNext ==
    \/ \E ev \in Events, ocr \in OcrOutcomes, put \in PutOutcomes, today \in Todays :
            HandlerInvoke(ev, ocr, put, today)
    \/ \E ev \in Events : EnhancedBegin(ev)
    \/ \E ocr \in EnhancedOcrKinds, put \in PutOutcomes, today \in Todays :
            EnhancedAttempt(ocr, put, today)

HandlerSpec == HandlerInit /\ [][HandlerNext]_vars

IsDatastoreCall(c) == c.dep = "datastore"

\* ------------------------------------- entry points: claims (HandlerSpec)
\* C21: every call to an external dependency made while a document is
\* processed (OCR, AI inference, datastore) goes through the
\* retry-with-backoff wrapper and through a circuit breaker.
C21_EveryCallWrapped ==
    \A i \in 1..Len(inv.calls) : inv.calls[i].retry /\ inv.calls[i].breaker

\* C22: the identifier of a document's record is generated once and every
\* further persist attempt for the document uses it, so the table never
\* holds two records for one document.
C22_OneRecordPerDocument ==
    /\ \A i, j \in 1..Len(inv.persist_ids) : inv.persist_ids[i] = inv.persist_ids[j]
    /\ \A a, b \in table : a.s3_key = b.s3_key => a = b

\* C26: handler.lambda_handler answers an event without 'Records' and an
\* object key without a supported extension with statusCode 400, and calls
\* neither OCR, AI nor the datastore.
C26_MalformedEventIs400 ==
    (/\ inv.handler = "handler"
     /\ \/ inv.event = "no_records"
        \/ inv.event = "s3" /\ ~Supported(inv.key, supported_extensions))
        => /\ inv.status = 400
           /\ inv.calls = <<>>

\* C30: handler.lambda_handler returns a response for every OCR and
\* inference outcome, calls put_item at most once, answers 200 whenever
\* put_item has succeeded, and has persisted nothing when it answers 400 or
\* 500.
C30_ResponseAgreesWithStore ==
    inv.handler = "handler"
        => /\ inv.status \in {200, 400, 500}
           /\ Len(SelectSeq(inv.calls, IsDatastoreCall)) <= 1
           /\ inv.stored => inv.status = 200
           /\ inv.status \in {400, 500} => ~inv.stored

====
